---- MODULE Spec2Model ----
(***************************************************************************)
(* A model of todo-scripts/todo.py: the file-backed task list of the       *)
(* waybar todo helper.  One invocation of the script is one process: it    *)
(* loads the State from tasks.json, applies the command it was given and   *)
(* saves the State through tasks.tmp and a rename.  The file system is     *)
(* modelled with inodes, directory entries and open file descriptions, so  *)
(* that truncation, writes at an offset and renames behave as they do on   *)
(* POSIX.                                                                  *)
(***************************************************************************)
EXTENDS Integers, Sequences, FiniteSets, TLC

(***************************************************************************)
(* Bounds of the model.                                                    *)
(***************************************************************************)
\* the task list of an invocation never grows beyond this many tasks
MaxTasks == 3
\* ids that uuid4 hands out over a whole behaviour
MaxIds == 2
\* readings of the wall clock by time.time(): 0..MaxTime
MaxTime == 5
\* readings of datetime.now().isoformat(): 0..MaxStamp
MaxStamp == 1
\* keys handled by one run of the terminal editor
MaxKeys == 2

(***************************************************************************)
(* Program constants.                                                      *)
(***************************************************************************)
ROTATION_INTERVAL == 2
\* uuid4().hex[:10]
IdLen == 10
\* task.get("id", "")[:6]
ShortIdLen == 6
\* add_task(state, title, priority=3) and --priority default=3
DefaultPriority == 3
MinPriority == 1
MaxPriority == 5

(***************************************************************************)
(* Text.  A string is a sequence of characters; Python compares strings    *)
(* by code point, which CharRank gives for the characters used here.       *)
(***************************************************************************)
\* the sequence f, evaluated once
Listed(f) == <<>> \o f

Min(a, b) == IF a < b THEN a ELSE b
Max(a, b) == IF a < b THEN b ELSE a

CharRank(c) ==
    CASE c = " " -> 32
      [] c = "-" -> 45
      [] c = "0" -> 48
      [] c = "1" -> 49
      [] c = "2" -> 50
      [] c = "3" -> 51
      [] c = "P" -> 80
      [] c = "R" -> 82
      [] c = "a" -> 97
      [] c = "b" -> 98
      [] c = "c" -> 99
      [] c = "d" -> 100
      [] c = "e" -> 101
      [] c = "g" -> 103
      [] c = "i" -> 105
      [] c = "k" -> 107
      [] c = "m" -> 109
      [] c = "n" -> 110
      [] c = "q" -> 113
      [] c = "r" -> 114
      [] c = "s" -> 115
      [] c = "t" -> 116
      [] c = "u" -> 117
      [] c = "x" -> 120

\* s < t for two strings
RECURSIVE StrLess(_, _)
StrLess(s, t) ==
    IF t = <<>> THEN FALSE
    ELSE IF s = <<>> THEN TRUE
    ELSE IF CharRank(Head(s)) < CharRank(Head(t)) THEN TRUE
    ELSE IF CharRank(Head(s)) > CharRank(Head(t)) THEN FALSE
    ELSE StrLess(Tail(s), Tail(t))

RECURSIVE LStrip(_)
LStrip(s) == IF s # <<>> /\ Head(s) = " " THEN LStrip(Tail(s)) ELSE s

RECURSIVE RStrip(_)
RStrip(s) ==
    IF s # <<>> /\ s[Len(s)] = " " THEN RStrip(SubSeq(s, 1, Len(s) - 1)) ELSE s

\* str.strip()
Strip(s) == RStrip(LStrip(s))

\* s[:n]
Prefix(s, n) == SubSeq(s, 1, Min(n, Len(s)))

(***************************************************************************)
(* Tasks and States.                                                       *)
(***************************************************************************)
SeedQuickstartId == <<"s", "e", "e", "d", "-", "q", "u", "i", "c", "k", "s", "t", "a", "r", "t">>
SeedManageId == <<"s", "e", "e", "d", "-", "m", "a", "n", "a", "g", "e">>

\* the seed titles "Part 6" and "Right click to edit or add", by their first letter
SeedQuickstartTitle == <<"P">>
SeedManageTitle == <<"R">>

\* DEFAULT_TASKS, built when the module is imported at clock reading c
DEFAULT_TASKS(c) ==
    << [id |-> SeedQuickstartId, title |-> SeedQuickstartTitle, priority |-> 1,
        done |-> FALSE, created |-> c],
       [id |-> SeedManageId, title |-> SeedManageTitle, priority |-> 3,
        done |-> FALSE, created |-> c] >>

\* {"tasks": DEFAULT_TASKS, "show_index": 0}
DefaultState(c) == [tasks |-> DEFAULT_TASKS(c), show_index |-> 0]

\* the n-th id uuid4().hex[:10] returns: ten hex digits
HexDigits == <<"1", "2", "3", "4", "5", "6", "7", "8", "9", "a", "b", "c", "d", "e", "f">>
NewId(n) == Listed([i \in 1..IdLen |-> IF i = 1 THEN HexDigits[n] ELSE "0"])

\* the value None of an Optional[task]
None == [none |-> TRUE]

(***************************************************************************)
(* Ordering and the display pool.                                          *)
(***************************************************************************)
\* the sort key (priority, created, title) of a is below that of b
KeyLess(a, b) ==
    \/ a.priority < b.priority
    \/ /\ a.priority = b.priority
       /\ \/ a.created < b.created
          \/ a.created = b.created /\ StrLess(a.title, b.title)

\* the index k put into the sorted sequence s of indices of tasks, behind every
\* index whose task has a key that is not above the key of tasks[k]
RECURSIVE InsertSorted(_, _, _)
InsertSorted(tasks, k, s) ==
    IF s = <<>> THEN <<k>>
    ELSE IF KeyLess(tasks[k], tasks[Head(s)]) THEN <<k>> \o s
    ELSE <<Head(s)>> \o InsertSorted(tasks, k, Tail(s))

\* the first n indices of tasks in sorted order
RECURSIVE SortPrefix(_, _)
SortPrefix(tasks, n) ==
    IF n = 0 THEN <<>> ELSE InsertSorted(tasks, n, SortPrefix(tasks, n - 1))

\* where each element of sorted(tasks, key=...) sits in tasks: Python's sort is
\* stable and the sorted list holds the same dict objects
SortedIndices(tasks) == SortPrefix(tasks, Len(tasks))

sorted_tasks(tasks) ==
    LET ix == SortedIndices(tasks) IN Listed([i \in 1..Len(tasks) |-> tasks[ix[i]]])

NotDone(t) == ~t.done

pending_tasks(state) == SelectSeq(state.tasks, NotDone)

\* a display pool without the fall back to all tasks
next_display_pool_PendingOnly(state) == sorted_tasks(pending_tasks(state))

next_display_pool(state) ==
    LET pool == sorted_tasks(pending_tasks(state))
    IN  IF pool # <<>> THEN pool ELSE sorted_tasks(state.tasks)

\* a rotation that forgets the interval: int(time.time()) % len(pool)
RotationIndex_NoInterval(t, n) == t % n

\* int(time.time() / ROTATION_INTERVAL) % len(pool), for a clock reading t >= 0
RotationIndex(t, n) == (t \div ROTATION_INTERVAL) % n

get_display_task(state, t) ==
    LET pool == sorted_tasks(pending_tasks(state))
    IN  IF pool = <<>> THEN None ELSE pool[RotationIndex(t, Len(pool)) + 1]

\* render_tasks_line: the second definition, which is the one in force
NoTodos == [text |-> "No todos"]
render_tasks_line(state, t) ==
    LET task == get_display_task(state, t)
    IN  IF task = None THEN NoTodos
        ELSE [text |-> "task", priority |-> task.priority, title |-> task.title]

(***************************************************************************)
(* Mutation operations.  Each gives the State after it and, where the      *)
(* code returns one, the boolean it returns.                               *)
(***************************************************************************)
\* the index of the first task with this id, 0 when there is none
RECURSIVE FirstWithId(_, _, _)
FirstWithId(tasks, task_id, i) ==
    IF i > Len(tasks) THEN 0
    ELSE IF tasks[i].id = task_id THEN i
    ELSE FirstWithId(tasks, task_id, i + 1)

\* a toggle that marks the task done in place of negating the flag
toggle_task_MarksDone(state, task_id) ==
    LET i == FirstWithId(state.tasks, task_id, 1)
    IN  IF i = 0 THEN [state |-> state, result |-> FALSE]
        ELSE [state |-> [state EXCEPT !.tasks[i].done = TRUE], result |-> TRUE]

toggle_task(state, task_id) ==
    LET i == FirstWithId(state.tasks, task_id, 1)
    IN  IF i = 0 THEN [state |-> state, result |-> FALSE]
        ELSE [state |-> [state EXCEPT !.tasks[i].done = ~state.tasks[i].done],
              result |-> TRUE]

toggle_current_display_task(state, t) ==
    LET task == get_display_task(state, t)
    IN  IF task = None THEN [state |-> state, result |-> FALSE]
        ELSE toggle_task(state, task.id)

\* a cycle_task without the modulo
cycle_task_NoWrap(state) ==
    LET pool == next_display_pool(state)
    IN  IF pool = <<>> THEN [state EXCEPT !.show_index = 0]
        ELSE [state EXCEPT !.show_index = state.show_index + 1]

cycle_task(state) ==
    LET pool == next_display_pool(state)
    IN  IF pool = <<>> THEN [state EXCEPT !.show_index = 0]
        ELSE [state EXCEPT !.show_index = (state.show_index + 1) % Len(pool)]

reset_cycle(state) == [state EXCEPT !.show_index = 0]

\* an add_task that stores the priority as it is given
add_task_NoClamp(state, title, priority, new_id, stamp) ==
    [state EXCEPT !.tasks = Append(state.tasks,
        [id |-> new_id,
         title |-> Strip(title),
         priority |-> priority,
         done |-> FALSE,
         created |-> stamp])]

\* new_id is what uuid4().hex[:10] returns, stamp what datetime.now().isoformat() does
add_task(state, title, priority, new_id, stamp) ==
    [state EXCEPT !.tasks = Append(state.tasks,
        [id |-> new_id,
         title |-> Strip(title),
         priority |-> Max(MinPriority, Min(priority, MaxPriority)),
         done |-> FALSE,
         created |-> stamp])]

\* the filter the wrong way round: the done tasks are the ones kept
clear_completed_KeepsDone(state) ==
    LET IsDone(t) == t.done IN [state EXCEPT !.tasks = SelectSeq(state.tasks, IsDone)]

clear_completed(state) == [state EXCEPT !.tasks = SelectSeq(state.tasks, NotDone)]

\* a delete that drops the first task when the id is not found
delete_task_DropsFirst(state, task_id) ==
    LET i == FirstWithId(state.tasks, task_id, 1)
        k == IF i = 0 THEN 1 ELSE i
        tasks == IF state.tasks = <<>> THEN <<>>
                 ELSE SubSeq(state.tasks, 1, k - 1) \o SubSeq(state.tasks, k + 1, Len(state.tasks))
    IN  [state |-> [state EXCEPT !.tasks = tasks],
         result |-> Len(tasks) < Len(state.tasks)]

delete_task(state, task_id) ==
    LET HasOtherId(t) == t.id # task_id
        tasks == SelectSeq(state.tasks, HasOtherId)
    IN  [state |-> [state EXCEPT !.tasks = tasks],
         result |-> Len(tasks) < Len(state.tasks)]

(***************************************************************************)
(* The text of the state file.  json.dump writes the State as a sequence   *)
(* of pieces of text; json.loads accepts a text or raises.                 *)
(***************************************************************************)
\* the text up to the first task, a task, and the text behind the last task
Opening == [t |-> "{\"tasks\": ["]
TaskText(task) == [t |-> "task", task |-> task]
Closing(n) == [t |-> "], \"show_index\": n}", n |-> n]
\* the texts "[]" and "{}"
EmptyList == [t |-> "[]"]
EmptyObject == [t |-> "{}"]
\* bytes that are no JSON
Garbage == [t |-> "garbage"]
\* the zero bytes of a hole left by a write behind the end of the file
Hole == [t |-> "hole"]

\* a dump that writes every task as not done
json_dump_ForgetsDone(state) ==
    <<Opening>>
        \o [i \in 1..Len(state.tasks) |-> TaskText([state.tasks[i] EXCEPT !.done = FALSE])]
        \o <<Closing(state.show_index)>>

\* json.dump(state, f, indent=2): the pieces in the order they are written
json_dump(state) ==
    <<Opening>>
        \o [i \in 1..Len(state.tasks) |-> TaskText(state.tasks[i])]
        \o <<Closing(state.show_index)>>

\* the length of the longest prefix of text made of task records
RECURSIVE TaskRun(_)
TaskRun(text) ==
    IF text # <<>> /\ Head(text).t = "task" THEN 1 + TaskRun(Tail(text)) ELSE 0

JsonError == [ok |-> FALSE, is_dict |-> FALSE, has_tasks |-> FALSE, tasks |-> <<>>,
              has_show_index |-> FALSE, show_index |-> 0]
JsonList == [JsonError EXCEPT !.ok = TRUE]
JsonDict(has_tasks, tasks, has_show_index, show_index) ==
    [ok |-> TRUE, is_dict |-> TRUE, has_tasks |-> has_tasks, tasks |-> tasks,
     has_show_index |-> has_show_index, show_index |-> show_index]

\* json.loads(text); ok is FALSE where it raises
json_loads(text) ==
    IF text = <<EmptyList>> THEN JsonList
    ELSE IF text = <<EmptyObject>> THEN JsonDict(FALSE, <<>>, FALSE, 0)
    ELSE IF /\ Len(text) >= 2
            /\ text[1] = Opening
            /\ TaskRun(Tail(text)) = Len(text) - 2
            /\ text[Len(text)].t = Closing(0).t
         THEN JsonDict(TRUE, Listed([i \in 1..(Len(text) - 2) |-> text[i + 1].task]),
                       TRUE, text[Len(text)].n)
    ELSE JsonError

\* raw["tasks"] = [] in place of setdefault: the tasks read are thrown away
SetDefaults_Overwrite(raw) ==
    [tasks |-> <<>>,
     show_index |-> IF raw.has_show_index THEN raw.show_index ELSE 0]

\* raw.setdefault("tasks", []); raw.setdefault("show_index", 0)
SetDefaults(raw) ==
    [tasks |-> IF raw.has_tasks THEN raw.tasks ELSE <<>>,
     show_index |-> IF raw.has_show_index THEN raw.show_index ELSE 0]

(***************************************************************************)
(* The file system: the directory ~/.local/share/waybar-todo holds at most *)
(* tasks.json, tasks.tmp and tasks.json.bak.                               *)
(***************************************************************************)
Procs == {1, 2}

DATA_FILE == "tasks.json"
\* a save_state that opens tasks.json itself for writing
TMP_FILE_InPlace == "tasks.json"
TMP_FILE == "tasks.tmp"
BACKUP_FILE == "tasks.json.bak"
Names == {DATA_FILE, TMP_FILE, BACKUP_FILE}

\* an inode for every name and every open file
Inodes == 1..(Cardinality(Names) + Cardinality(Procs))
\* what a directory entry or a file descriptor holds when it names no inode
NoInode == 0
\* the inode of the tasks.json that is there before any invocation
FirstInode == CHOOSE i \in Inodes : \A j \in Inodes : i <= j

VARIABLES
    inodes,       \* inode -> its content
    dir,          \* file name -> the inode it names, NoInode when there is no such file
    fd,           \* process -> the inode its open file names, NoInode when none is open
    off,          \* process -> the offset of its open file
    pc,           \* process -> where it is in the script
    args,         \* process -> the command line it parsed
    mem,          \* process -> its in-memory State
    loaded,       \* process -> the State load_state returned to it
    changed,      \* process -> the variable changed of main or of tui_loop
    ret,          \* process -> the caller save_state returns to
    current_idx,  \* process -> the cursor of tui_loop
    keys,         \* process -> the keys tui_loop has handled
    nextId        \* the ids uuid4 has handed out, plus one

vars == <<inodes, dir, fd, off, pc, args, mem, loaded, changed, ret, current_idx,
          keys, nextId>>

\* the content of the file of that name; only asked of a file that exists
Content(name) == inodes[dir[name]]
Exists(name) == dir[name] # NoInode

\* an inode no name and no open file refers to is gone
Referenced(d, f) == {d[n] : n \in Names} \cup {f[p] : p \in Procs}
Reclaim(ino, d, f) ==
    Listed([i \in Inodes |-> IF i \in Referenced(d, f) THEN ino[i] ELSE <<>>])

FreeInode == CHOOSE i \in Inodes :
    /\ i \notin Referenced(dir, fd)
    /\ \A j \in Inodes : j < i => j \in Referenced(dir, fd)

\* write(2) of one piece at an offset: it replaces what is there, or extends the file
WriteAt(text, offset, piece) ==
    Listed([i \in 1..Max(Len(text), offset + 1) |->
                IF i = offset + 1 THEN piece
                ELSE IF i <= Len(text) THEN text[i]
                ELSE Hole])

(***************************************************************************)
(* What the environment hands to an invocation.                            *)
(***************************************************************************)
Stamps == 0..MaxStamp
Times == 0..MaxTime

EmptyState == [tasks |-> <<>>, show_index |-> 0]

\* States an earlier run of the script can have left in tasks.json
OneDoneState ==
    [tasks |-> [DEFAULT_TASKS(0) EXCEPT ![1].done = TRUE], show_index |-> 1]
AllDoneState ==
    [tasks |-> Listed([i \in 1..2 |-> [DEFAULT_TASKS(0)[i] EXCEPT !.done = TRUE]]),
     show_index |-> 0]
InitialStates == {EmptyState, DefaultState(0), OneDoneState, AllDoneState}

\* texts of tasks.json that are no State: no JSON, a JSON list, an object without members
InitialOddTexts == {<<Garbage>>, <<EmptyList>>, <<EmptyObject>>}

InitialTexts == {json_dump(st) : st \in InitialStates} \cup InitialOddTexts

\* --title: "" stands for an absent --title too, both are falsy
TitleInputs == {<<>>, <<" ">>, <<"a">>, <<" ", "R">>}
\* --priority, an int
PriorityInputs == {-3, 3, 7}
\* --id: "" stands for an absent --id
MissingId == <<"x">>
IdInputs == {<<>>, MissingId, SeedQuickstartId, Prefix(SeedManageId, ShortIdLen), NewId(1)}

NoArgs == [action |-> "status", id |-> <<>>, title |-> <<>>, priority |-> DefaultPriority]
Invocations ==
    {[NoArgs EXCEPT !.action = a] :
        a \in {"status", "cycle", "toggle-top", "menu", "tui", "reset"}}
    \cup {[NoArgs EXCEPT !.action = "toggle", !.id = i] : i \in IdInputs}
    \cup {[NoArgs EXCEPT !.action = "add", !.title = t, !.priority = n] :
            t \in TitleInputs, n \in PriorityInputs}

(***************************************************************************)
(* The initial state: no invocation has started; tasks.json is absent or   *)
(* holds one of the initial texts.                                         *)
(***************************************************************************)
\* first is the number of the first id uuid4 hands out
InitFrom(texts, first) ==
    /\ \/ /\ dir = [n \in Names |-> NoInode]
          /\ inodes = Listed([i \in Inodes |-> <<>>])
       \/ \E text \in texts :
          /\ dir = [n \in Names |-> IF n = DATA_FILE THEN FirstInode ELSE NoInode]
          /\ inodes = Listed([i \in Inodes |-> IF i = FirstInode THEN text ELSE <<>>])
    /\ fd = [p \in Procs |-> NoInode]
    /\ off = [p \in Procs |-> 0]
    /\ pc = [p \in Procs |-> "idle"]
    /\ args = [p \in Procs |-> NoArgs]
    /\ mem = [p \in Procs |-> EmptyState]
    /\ loaded = [p \in Procs |-> EmptyState]
    /\ changed = [p \in Procs |-> FALSE]
    /\ ret = [p \in Procs |-> "none"]
    /\ current_idx = [p \in Procs |-> 0]
    /\ keys = [p \in Procs |-> 0]
    /\ nextId = first

InitWith(texts) == InitFrom(texts, 1)

Init == InitWith(InitialTexts)

\* parse_args(): the invocation starts
Start(p, a) ==
    /\ pc[p] = "idle"
    /\ args' = [args EXCEPT ![p] = a]
    /\ pc' = [pc EXCEPT ![p] = "load_exists"]
    /\ UNCHANGED <<inodes, dir, fd, off, mem, loaded, changed, ret, current_idx, keys,
                   nextId>>

(***************************************************************************)
(* load_state                                                              *)
(***************************************************************************)
\* if not DATA_FILE.exists(): the default State, on to save_state
LoadNoFile(p) ==
    /\ pc[p] = "load_exists"
    /\ ~Exists(DATA_FILE)
    /\ \E c \in Stamps : mem' = [mem EXCEPT ![p] = DefaultState(c)]
    /\ ret' = [ret EXCEPT ![p] = "load_new"]
    /\ pc' = [pc EXCEPT ![p] = "save_open"]
    /\ UNCHANGED <<inodes, dir, fd, off, args, loaded, changed, current_idx, keys, nextId>>

LoadExists(p) ==
    /\ pc[p] = "load_exists"
    /\ Exists(DATA_FILE)
    /\ pc' = [pc EXCEPT ![p] = "load_read"]
    /\ UNCHANGED <<inodes, dir, fd, off, args, mem, loaded, changed, ret, current_idx,
                   keys, nextId>>

\* what the try block of load_state gets: the parsed text, or an error when
\* read_text finds no file
ReadState == IF Exists(DATA_FILE) THEN json_loads(Content(DATA_FILE)) ELSE JsonError

\* the try block returns raw
LoadRead(p) ==
    /\ pc[p] = "load_read"
    /\ ReadState.ok /\ ReadState.is_dict
    /\ mem' = [mem EXCEPT ![p] = SetDefaults(ReadState)]
    /\ loaded' = [loaded EXCEPT ![p] = SetDefaults(ReadState)]
    /\ pc' = [pc EXCEPT ![p] = "main"]
    /\ UNCHANGED <<inodes, dir, fd, off, args, changed, ret, current_idx, keys, nextId>>

\* the try block raises: on to the except block
LoadReadFails(p) ==
    /\ pc[p] = "load_read"
    /\ ~(ReadState.ok /\ ReadState.is_dict)
    /\ pc' = [pc EXCEPT ![p] = "load_backup"]
    /\ UNCHANGED <<inodes, dir, fd, off, args, mem, loaded, changed, ret, current_idx,
                   keys, nextId>>

\* DATA_FILE.rename(backup), the default State, on to save_state
LoadBackup(p) ==
    /\ pc[p] = "load_backup"
    /\ Exists(DATA_FILE)
    /\ LET d == [dir EXCEPT ![BACKUP_FILE] = dir[DATA_FILE], ![DATA_FILE] = NoInode]
       IN  /\ dir' = d
           /\ inodes' = Reclaim(inodes, d, fd)
    /\ \E c \in Stamps : mem' = [mem EXCEPT ![p] = DefaultState(c)]
    /\ ret' = [ret EXCEPT ![p] = "load_recover"]
    /\ pc' = [pc EXCEPT ![p] = "save_open"]
    /\ UNCHANGED <<fd, off, args, loaded, changed, current_idx, keys, nextId>>

\* DATA_FILE.rename(backup) finds no file: FileNotFoundError leaves the except block
LoadBackupRaises(p) ==
    /\ pc[p] = "load_backup"
    /\ ~Exists(DATA_FILE)
    /\ pc' = [pc EXCEPT ![p] = "load_raised"]
    /\ UNCHANGED <<inodes, dir, fd, off, args, mem, loaded, changed, ret, current_idx,
                   keys, nextId>>

(***************************************************************************)
(* save_state                                                              *)
(***************************************************************************)
\* tmp_file.open("w"): O_CREAT | O_TRUNC on tasks.tmp
SaveOpen(p) ==
    /\ pc[p] = "save_open"
    /\ LET i == IF Exists(TMP_FILE) THEN dir[TMP_FILE] ELSE FreeInode
       IN  /\ dir' = [dir EXCEPT ![TMP_FILE] = i]
           /\ inodes' = [inodes EXCEPT ![i] = <<>>]
           /\ fd' = [fd EXCEPT ![p] = i]
    /\ off' = [off EXCEPT ![p] = 0]
    /\ pc' = [pc EXCEPT ![p] = "save_write"]
    /\ UNCHANGED <<args, mem, loaded, changed, ret, current_idx, keys, nextId>>

\* json.dump(state, f, indent=2): the next piece goes to the open file; the with
\* block closes the file behind the last piece
SaveWrite(p) ==
    /\ pc[p] = "save_write"
    /\ LET text == json_dump(mem[p])
           last == off[p] + 1 = Len(text)
           f == [fd EXCEPT ![p] = IF last THEN NoInode ELSE fd[p]]
           ino == [inodes EXCEPT ![fd[p]] = WriteAt(inodes[fd[p]], off[p], text[off[p] + 1])]
       IN  /\ inodes' = Reclaim(ino, dir, f)
           /\ fd' = f
           /\ off' = [off EXCEPT ![p] = IF last THEN 0 ELSE off[p] + 1]
           /\ pc' = [pc EXCEPT ![p] = IF last THEN "save_replace" ELSE "save_write"]
    /\ UNCHANGED <<dir, args, mem, loaded, changed, ret, current_idx, keys, nextId>>

\* the calls of save_state in load_state: line 44 ("load_new") and line 58
\* ("load_recover"); the others are those of main and of tui_loop
LoadCallers == {"load_new", "load_recover"}

\* where save_state returns to: load_state returns to main, main exits, tui_loop
\* goes round its loop
AfterSave(p) ==
    CASE ret[p] \in LoadCallers -> "main"
      [] ret[p] = "main" -> "done"
      [] ret[p] = "tui" -> "tui_draw"

\* a save_state that returns without tmp_file.replace(DATA_FILE)
SaveReplace_NoRename(p) ==
    /\ pc[p] = "save_replace"
    /\ Exists(TMP_FILE)
    /\ loaded' = [loaded EXCEPT ![p] = IF ret[p] \in LoadCallers THEN mem[p] ELSE loaded[p]]
    /\ pc' = [pc EXCEPT ![p] = AfterSave(p)]
    /\ UNCHANGED <<inodes, dir, fd, off, args, mem, changed, ret, current_idx, keys, nextId>>

\* tmp_file.replace(DATA_FILE), and save_state returns
SaveReplace(p) ==
    /\ pc[p] = "save_replace"
    /\ Exists(TMP_FILE)
    /\ LET d == [dir EXCEPT ![DATA_FILE] = dir[TMP_FILE], ![TMP_FILE] = NoInode]
       IN  /\ dir' = d
           /\ inodes' = Reclaim(inodes, d, fd)
    /\ loaded' = [loaded EXCEPT ![p] = IF ret[p] \in LoadCallers THEN mem[p] ELSE loaded[p]]
    /\ pc' = [pc EXCEPT ![p] = AfterSave(p)]
    /\ UNCHANGED <<fd, off, args, mem, changed, ret, current_idx, keys, nextId>>

\* tmp_file.replace(DATA_FILE) finds no tasks.tmp: FileNotFoundError
SaveReplaceRaises(p) ==
    /\ pc[p] = "save_replace"
    /\ ~Exists(TMP_FILE)
    /\ pc' = [pc EXCEPT ![p] = "raised"]
    /\ UNCHANGED <<inodes, dir, fd, off, args, mem, loaded, changed, ret, current_idx,
                   keys, nextId>>

(***************************************************************************)
(* The launcher menu: run_menu, prompt_input and manage_menu.  The         *)
(* launcher (wofi or rofi) is the environment: chooser tells whether       *)
(* detect_menu finds one, an answer is its exit status and its output.     *)
(***************************************************************************)
\* an Optional[str]
NoneStr == [is_none |-> TRUE, s |-> <<>>]
Str(s) == [is_none |-> FALSE, s |-> s]
\* the truth value Python gives an Optional[str]
Truthy(o) == ~o.is_none /\ o.s # <<>>

Digits == {"0", "1", "2", "3", "4", "5", "6", "7", "8", "9"}
DigitValue(c) ==
    CASE c = "0" -> 0 [] c = "1" -> 1 [] c = "2" -> 2 [] c = "3" -> 3 [] c = "4" -> 4
      [] c = "5" -> 5 [] c = "6" -> 6 [] c = "7" -> 7 [] c = "8" -> 8 [] c = "9" -> 9

\* str.isdigit()
IsDigit(s) == s # <<>> /\ \A i \in 1..Len(s) : s[i] \in Digits

\* int(s) of a string of digits
RECURSIVE ParseInt(_)
ParseInt(s) ==
    IF s = <<>> THEN 0
    ELSE 10 * ParseInt(SubSeq(s, 1, Len(s) - 1)) + DigitValue(s[Len(s)])

\* the lines manage_menu offers; a task's line ends in "#" and the first six
\* characters of its id
TaskOption(task) ==
    [text |-> "task", mark |-> task.done, priority |-> task.priority,
     title |-> task.title, short_id |-> Prefix(task.id, ShortIdLen)]
AddOption == [text |-> "[+] Add task"]
ClearOption == [text |-> "[!] Clear completed"]
ResetOption == [text |-> "[0] Reset view"]
Separator == [text |-> "---"]
EmptyChoice == [text |-> ""]
NoneChoice == [text |-> "None"]

MenuOptions(state) ==
    LET tasks == sorted_tasks(state.tasks)
    IN  {TaskOption(tasks[i]) : i \in 1..Len(tasks)}
            \cup (IF tasks # <<>> THEN {Separator} ELSE {})
            \cup {AddOption, ClearOption, ResetOption}

\* what the launcher can answer to a menu: it fails, or it prints a line or nothing
MenuAnswers(state) ==
    {[returncode |-> 1, stdout |-> EmptyChoice]}
        \cup {[returncode |-> 0, stdout |-> o] : o \in MenuOptions(state) \cup {EmptyChoice}}

\* what the launcher can answer to a prompt for one of these texts
PromptAnswers(texts) ==
    {[returncode |-> 1, stdout |-> <<>>]} \cup {[returncode |-> 0, stdout |-> t] : t \in texts}

\* what the user types for a priority
PriorityTexts == {<<>>, <<"x">>, <<"0">>, <<"7">>}

run_menu(chooser, answer) ==
    IF ~chooser THEN NoneChoice
    ELSE IF answer.returncode # 0 THEN NoneChoice
    ELSE answer.stdout

\* without a launcher the answer is that of input(): a line, or EOFError
prompt_input(chooser, answer) ==
    IF answer.returncode # 0 THEN NoneStr ELSE Str(Strip(answer.stdout))

manage_menu(state, chooser, menu_answer, title_answer, priority_answer, new_id, stamp) ==
    LET choice == run_menu(chooser, menu_answer)
        title == prompt_input(chooser, title_answer)
        raw_priority == prompt_input(chooser, priority_answer)
        priority == IF Truthy(raw_priority) /\ IsDigit(raw_priority.s)
                    THEN ParseInt(raw_priority.s) ELSE DefaultPriority
        toggled == toggle_task(state, Strip(choice.short_id))
    IN  CASE choice.text \in {"None", ""} -> [state |-> state, result |-> FALSE]
          [] choice.text = "[+] Add task" ->
                IF Truthy(title)
                THEN [state |-> add_task(state, title.s, priority, new_id, stamp),
                      result |-> TRUE]
                ELSE [state |-> state, result |-> FALSE]
          [] choice.text = "[!] Clear completed" ->
                [state |-> reset_cycle(clear_completed(state)), result |-> TRUE]
          [] choice.text = "[0] Reset view" ->
                [state |-> reset_cycle(state), result |-> TRUE]
          [] choice.text = "task" ->
                IF toggled.result
                THEN [state |-> reset_cycle(toggled.state), result |-> TRUE]
                ELSE [state |-> toggled.state, result |-> FALSE]
          \* no branch is taken: manage_menu returns None, which main takes as false
          [] OTHER -> [state |-> state, result |-> FALSE]

(***************************************************************************)
(* main: the command, then "if changed: save_state(state)".                *)
(***************************************************************************)
\* a main without "if changed: save_state(state)"
Finish_NoSave(p, state, ch) ==
    /\ mem' = [mem EXCEPT ![p] = state]
    /\ changed' = [changed EXCEPT ![p] = ch]
    /\ ret' = [ret EXCEPT ![p] = "main"]
    /\ pc' = [pc EXCEPT ![p] = "done"]

Finish(p, state, ch) ==
    /\ mem' = [mem EXCEPT ![p] = state]
    /\ changed' = [changed EXCEPT ![p] = ch]
    /\ ret' = [ret EXCEPT ![p] = "main"]
    /\ pc' = [pc EXCEPT ![p] = IF ch THEN "save_open" ELSE "done"]

\* one more task fits and uuid4 has one more id
CanAdd(state) == Len(state.tasks) < MaxTasks /\ nextId <= MaxIds

MainStatus(p) ==
    /\ pc[p] = "main"
    /\ args[p].action = "status"
    /\ Finish(p, mem[p], FALSE)
    /\ UNCHANGED <<inodes, dir, fd, off, args, loaded, current_idx, keys, nextId>>

\* a cycle command that counts the cursor up: state["show_index"] += 1
MainCycle_CountsUp(p) ==
    /\ pc[p] = "main"
    /\ args[p].action = "cycle"
    /\ Finish(p, [mem[p] EXCEPT !.show_index = mem[p].show_index + 1], TRUE)
    /\ UNCHANGED <<inodes, dir, fd, off, args, loaded, current_idx, keys, nextId>>

MainCycle(p) ==
    /\ pc[p] = "main"
    /\ args[p].action = "cycle"
    /\ Finish(p, mem[p], TRUE)
    /\ UNCHANGED <<inodes, dir, fd, off, args, loaded, current_idx, keys, nextId>>

MainToggleTop(p) ==
    /\ pc[p] = "main"
    /\ args[p].action = "toggle-top"
    /\ \E t \in Times :
          LET r == toggle_current_display_task(mem[p], t)
          IN  Finish(p, r.state, r.result)
    /\ UNCHANGED <<inodes, dir, fd, off, args, loaded, current_idx, keys, nextId>>

MainMenu(p) ==
    /\ pc[p] = "main"
    /\ args[p].action = "menu"
    /\ \E chooser \in BOOLEAN, menu_answer \in MenuAnswers(mem[p]),
          title_answer \in PromptAnswers(TitleInputs),
          priority_answer \in PromptAnswers(PriorityTexts), stamp \in Stamps :
          LET r == manage_menu(mem[p], chooser, menu_answer, title_answer,
                               priority_answer, NewId(Min(nextId, MaxIds)), stamp)
              added == Len(r.state.tasks) > Len(mem[p].tasks)
          IN  /\ added => CanAdd(mem[p])
              /\ nextId' = IF added THEN nextId + 1 ELSE nextId
              /\ Finish(p, r.state, r.result)
    /\ UNCHANGED <<inodes, dir, fd, off, args, loaded, current_idx, keys>>

\* elif args.action == "toggle" and args.id
MainToggle(p) ==
    /\ pc[p] = "main"
    /\ args[p].action = "toggle"
    /\ LET r == IF args[p].id # <<>> THEN toggle_task(mem[p], args[p].id)
                ELSE [state |-> mem[p], result |-> FALSE]
       IN  Finish(p, r.state, r.result)
    /\ UNCHANGED <<inodes, dir, fd, off, args, loaded, current_idx, keys, nextId>>

\* elif args.action == "add" and args.title
MainAdd(p) ==
    /\ pc[p] = "main"
    /\ args[p].action = "add"
    /\ IF args[p].title # <<>>
       THEN /\ CanAdd(mem[p])
            /\ \E stamp \in Stamps :
                  Finish(p, add_task(mem[p], args[p].title, args[p].priority,
                                     NewId(nextId), stamp), TRUE)
            /\ nextId' = nextId + 1
       ELSE /\ Finish(p, mem[p], FALSE)
            /\ nextId' = nextId
    /\ UNCHANGED <<inodes, dir, fd, off, args, loaded, current_idx, keys>>

MainReset(p) ==
    /\ pc[p] = "main"
    /\ args[p].action = "reset"
    /\ Finish(p, reset_cycle(mem[p]), TRUE)
    /\ UNCHANGED <<inodes, dir, fd, off, args, loaded, current_idx, keys, nextId>>

(***************************************************************************)
(* tui_loop: the terminal list editor.  Each turn of its loop draws the    *)
(* list, clamping the cursor, reads a key, handles it and saves when       *)
(* changed is set.                                                         *)
(***************************************************************************)
\* lines 336-339: the cursor is brought back into a list of n tasks
ClampCursor(idx, n) ==
    LET a == IF idx >= n THEN Min(Max(0, n - 1), n) ELSE idx
    IN  IF a < 0 THEN 0 ELSE a

\* the task under the cursor, as an index into state.tasks
UnderCursor(state, idx) == SortedIndices(state.tasks)[idx + 1]

\* the key E: a new title if one is typed, a new priority if one is typed
tui_edit(state, idx, title_text, priority_text) ==
    LET k == UnderCursor(state, idx)
        new_title == Strip(title_text)
        titled == IF new_title # <<>> THEN [state EXCEPT !.tasks[k].title = new_title]
                  ELSE state
        prio_str == Strip(priority_text)
        new_prio == IF IsDigit(prio_str) THEN ParseInt(prio_str)
                    ELSE titled.tasks[k].priority
    IN  IF prio_str # <<>>
        THEN [state |-> [titled EXCEPT !.tasks[k].priority =
                            Max(MinPriority, Min(new_prio, MaxPriority))],
              result |-> TRUE]
        ELSE [state |-> titled, result |-> new_title # <<>>]

\* curses.wrapper(lambda stdscr: tui_loop(stdscr, state))
MainTui(p) ==
    /\ pc[p] = "main"
    /\ args[p].action = "tui"
    /\ current_idx' = [current_idx EXCEPT ![p] = 0]
    /\ changed' = [changed EXCEPT ![p] = FALSE]
    /\ keys' = [keys EXCEPT ![p] = 0]
    /\ pc' = [pc EXCEPT ![p] = "tui_draw"]
    /\ UNCHANGED <<inodes, dir, fd, off, args, mem, loaded, ret, nextId>>

\* the top of the loop, up to getch()
TuiDraw(p) ==
    /\ pc[p] = "tui_draw"
    /\ current_idx' = [current_idx EXCEPT ![p] = ClampCursor(current_idx[p], Len(mem[p].tasks))]
    /\ pc' = [pc EXCEPT ![p] = "tui_key"]
    /\ UNCHANGED <<inodes, dir, fd, off, args, mem, loaded, changed, ret, keys, nextId>>

\* drawing raises curses.error (a terminal too small for the footer): main catches
\* it, its own changed is still False and it saves nothing
TuiError(p) ==
    /\ pc[p] = "tui_draw"
    /\ changed' = [changed EXCEPT ![p] = FALSE]
    /\ pc' = [pc EXCEPT ![p] = "done"]
    /\ UNCHANGED <<inodes, dir, fd, off, args, mem, loaded, ret, current_idx, keys, nextId>>

\* the end of a turn of the loop: "if changed: save_state(state)"
AfterKey(p, state, ch, idx) ==
    /\ pc[p] = "tui_key"
    /\ keys[p] < MaxKeys
    /\ mem' = [mem EXCEPT ![p] = state]
    /\ changed' = [changed EXCEPT ![p] = ch]
    /\ current_idx' = [current_idx EXCEPT ![p] = idx]
    /\ keys' = [keys EXCEPT ![p] = keys[p] + 1]
    /\ ret' = [ret EXCEPT ![p] = "tui"]
    /\ pc' = [pc EXCEPT ![p] = IF ch THEN "save_open" ELSE "tui_draw"]

\* q or esc: tui_loop returns changed to main
TuiQuit(p) ==
    /\ pc[p] = "tui_key"
    /\ Finish(p, mem[p], changed[p])
    /\ UNCHANGED <<inodes, dir, fd, off, args, loaded, current_idx, keys, nextId>>

\* j or the down arrow
TuiDown(p) ==
    /\ AfterKey(p, mem[p], changed[p],
                IF current_idx[p] < Len(mem[p].tasks) - 1 THEN current_idx[p] + 1
                ELSE current_idx[p])
    /\ UNCHANGED <<inodes, dir, fd, off, args, loaded, nextId>>

\* k or the up arrow
TuiUp(p) ==
    /\ AfterKey(p, mem[p], changed[p],
                IF current_idx[p] > 0 THEN current_idx[p] - 1 ELSE current_idx[p])
    /\ UNCHANGED <<inodes, dir, fd, off, args, loaded, nextId>>

\* space
TuiToggle(p) ==
    /\ IF mem[p].tasks # <<>>
       THEN LET task == mem[p].tasks[UnderCursor(mem[p], current_idx[p])]
            IN  AfterKey(p, toggle_task(mem[p], task.id).state, TRUE, current_idx[p])
       ELSE AfterKey(p, mem[p], changed[p], current_idx[p])
    /\ UNCHANGED <<inodes, dir, fd, off, args, loaded, nextId>>

\* a delete key without "Fix index after delete"
TuiDelete_KeepsCursor(p) ==
    /\ IF mem[p].tasks # <<>>
       THEN LET task == mem[p].tasks[UnderCursor(mem[p], current_idx[p])]
                r == delete_task(mem[p], task.id)
            IN  AfterKey(p, r.state, IF r.result THEN TRUE ELSE changed[p], current_idx[p])
       ELSE AfterKey(p, mem[p], changed[p], current_idx[p])
    /\ UNCHANGED <<inodes, dir, fd, off, args, loaded, nextId>>

\* d, delete or backspace
TuiDelete(p) ==
    /\ IF mem[p].tasks # <<>>
       THEN LET task == mem[p].tasks[UnderCursor(mem[p], current_idx[p])]
                r == delete_task(mem[p], task.id)
                n == Len(r.state.tasks)
            IN  IF r.result
                THEN AfterKey(p, r.state, TRUE,
                              IF current_idx[p] >= n THEN Max(0, n - 1) ELSE current_idx[p])
                ELSE AfterKey(p, r.state, changed[p], current_idx[p])
       ELSE AfterKey(p, mem[p], changed[p], current_idx[p])
    /\ UNCHANGED <<inodes, dir, fd, off, args, loaded, nextId>>

\* c or C
TuiClear(p) ==
    /\ IF mem[p].tasks # <<>>
       THEN AfterKey(p, clear_completed(mem[p]), TRUE, 0)
       ELSE AfterKey(p, mem[p], changed[p], current_idx[p])
    /\ UNCHANGED <<inodes, dir, fd, off, args, loaded, nextId>>

\* a or A: a title is read, and a priority if the title is not empty
TuiAdd(p) ==
    /\ \E title_text \in TitleInputs, priority_text \in PriorityTexts, stamp \in Stamps :
          LET title == Strip(title_text)
              prio_str == Strip(priority_text)
              prio == IF IsDigit(prio_str) THEN ParseInt(prio_str) ELSE DefaultPriority
          IN  IF title # <<>>
              THEN /\ CanAdd(mem[p])
                   /\ AfterKey(p, add_task(mem[p], title, prio, NewId(nextId), stamp),
                               TRUE, current_idx[p])
                   /\ nextId' = nextId + 1
              ELSE /\ AfterKey(p, mem[p], changed[p], current_idx[p])
                   /\ nextId' = nextId
    /\ UNCHANGED <<inodes, dir, fd, off, args, loaded>>

\* e or E
TuiEdit(p) ==
    /\ IF mem[p].tasks # <<>>
       THEN \E title_text \in TitleInputs, priority_text \in PriorityTexts :
               LET r == tui_edit(mem[p], current_idx[p], title_text, priority_text)
               IN  AfterKey(p, r.state, changed[p] \/ r.result, current_idx[p])
       ELSE AfterKey(p, mem[p], changed[p], current_idx[p])
    /\ UNCHANGED <<inodes, dir, fd, off, args, loaded, nextId>>

\* any other key
TuiOtherKey(p) ==
    /\ AfterKey(p, mem[p], changed[p], current_idx[p])
    /\ UNCHANGED <<inodes, dir, fd, off, args, loaded, nextId>>

(***************************************************************************)
(* The process is killed, or the machine stops: its open file is closed    *)
(* and its memory is gone.                                                 *)
(***************************************************************************)
Ended(p) == pc[p] \in {"done", "raised", "load_raised", "crashed"}
Running(p) == pc[p] # "idle" /\ ~Ended(p)

Crash(p) ==
    /\ Running(p)
    /\ pc' = [pc EXCEPT ![p] = "crashed"]
    /\ LET f == [fd EXCEPT ![p] = NoInode]
       IN  /\ fd' = f
           /\ inodes' = Reclaim(inodes, dir, f)
    /\ off' = [off EXCEPT ![p] = 0]
    /\ args' = [args EXCEPT ![p] = NoArgs]
    /\ mem' = [mem EXCEPT ![p] = EmptyState]
    /\ loaded' = [loaded EXCEPT ![p] = EmptyState]
    /\ changed' = [changed EXCEPT ![p] = FALSE]
    /\ ret' = [ret EXCEPT ![p] = "none"]
    /\ current_idx' = [current_idx EXCEPT ![p] = 0]
    /\ keys' = [keys EXCEPT ![p] = 0]
    /\ UNCHANGED <<dir, nextId>>

\* raise SystemExit(main()): the process is gone, the script can be run again
Restart(p) ==
    /\ pc[p] \in {"done", "raised", "load_raised"}
    /\ pc' = [pc EXCEPT ![p] = "idle"]
    /\ args' = [args EXCEPT ![p] = NoArgs]
    /\ mem' = [mem EXCEPT ![p] = EmptyState]
    /\ loaded' = [loaded EXCEPT ![p] = EmptyState]
    /\ changed' = [changed EXCEPT ![p] = FALSE]
    /\ ret' = [ret EXCEPT ![p] = "none"]
    /\ current_idx' = [current_idx EXCEPT ![p] = 0]
    /\ keys' = [keys EXCEPT ![p] = 0]
    /\ UNCHANGED <<inodes, dir, fd, off, nextId>>

(***************************************************************************)
(* Specifications.                                                         *)
(***************************************************************************)
\* a step of load_state or save_state that finds the files it expects
Store(p) ==
    \/ LoadNoFile(p)
    \/ LoadExists(p)
    \/ LoadRead(p)
    \/ LoadReadFails(p)
    \/ LoadBackup(p)
    \/ SaveOpen(p)
    \/ SaveWrite(p)
    \/ SaveReplace(p)

\* a step of main for one of the commands without a dialogue
Command(p) ==
    \/ MainStatus(p)
    \/ MainCycle(p)
    \/ MainToggleTop(p)
    \/ MainToggle(p)
    \/ MainAdd(p)
    \/ MainReset(p)

\* a step of the terminal editor
Tui(p) ==
    \/ MainTui(p)
    \/ TuiDraw(p)
    \/ TuiError(p)
    \/ TuiQuit(p)
    \/ TuiDown(p)
    \/ TuiUp(p)
    \/ TuiToggle(p)
    \/ TuiDelete(p)
    \/ TuiClear(p)
    \/ TuiAdd(p)
    \/ TuiEdit(p)
    \/ TuiOtherKey(p)

\* one invocation of the script, which may be killed at any step
Next ==
    \/ \E a \in Invocations : Start(1, a)
    \/ Store(1)
    \/ Command(1)
    \/ MainMenu(1)
    \/ Tui(1)
    \/ Crash(1)

Spec == Init /\ [][Next]_vars

\* an invocation, and when it has ended a second one that shows the status
NextSequential ==
    \/ \E a \in Invocations : Start(1, a)
    \/ Store(1)
    \/ Command(1)
    \/ MainMenu(1)
    \/ Tui(1)
    \/ /\ Ended(1)
       /\ \/ Start(2, NoArgs)
          \/ Store(2)
          \/ MainStatus(2)

SpecSequential == Init /\ [][NextSequential]_vars

\* the invocations that race in SpecConcurrent
ConcurrentInvocations ==
    {[NoArgs EXCEPT !.action = a] : a \in {"status", "toggle-top", "reset"}}
        \cup {[NoArgs EXCEPT !.action = "add", !.title = <<"a">>]}

\* two invocations at once: a status bar timer and a click, say
NextConcurrent ==
    \E p \in Procs :
        \/ \E a \in ConcurrentInvocations : Start(p, a)
        \/ Store(p)
        \/ LoadBackupRaises(p)
        \/ SaveReplaceRaises(p)
        \/ MainStatus(p)
        \/ MainToggleTop(p)
        \/ MainAdd(p)
        \/ MainReset(p)

\* the races start from no tasks.json, from one that is no JSON, or from the
\* default State
InitConcurrent == InitWith({<<Garbage>>, json_dump(DefaultState(0))})

SpecConcurrent == InitConcurrent /\ [][NextConcurrent]_vars

\* one command after the other, from the first run of the script on: there is
\* no tasks.json, or it holds the default State.
\* the key e, which changes titles and priorities only, is left to Spec; the
\* script finds no text in tasks.json that it did not write itself
NextSession ==
    \/ \E a \in Invocations : Start(1, a)
    \/ LoadNoFile(1) \/ LoadExists(1) \/ LoadRead(1)
    \/ SaveOpen(1) \/ SaveWrite(1) \/ SaveReplace(1)
    \/ Command(1)
    \/ MainMenu(1)
    \/ MainTui(1) \/ TuiDraw(1) \/ TuiError(1) \/ TuiQuit(1) \/ TuiDown(1) \/ TuiUp(1)
    \/ TuiToggle(1) \/ TuiDelete(1) \/ TuiClear(1) \/ TuiAdd(1) \/ TuiOtherKey(1)
    \/ Restart(1)

\* uuid4 has one id left to hand out over the session
InitSession == InitFrom({json_dump(DefaultState(0))}, MaxIds)

SpecSession == InitSession /\ [][NextSession]_vars

(***************************************************************************)
(* The claims.                                                             *)
(***************************************************************************)
\* tasks.json as a reader finds it: whether it is there, and its text
Canonical == [exists |-> Exists(DATA_FILE),
              text |-> IF Exists(DATA_FILE) THEN Content(DATA_FILE) ELSE <<>>]
\* tasks.json holding the complete text of a State
Holding(state) == [exists |-> TRUE, text |-> json_dump(state)]

InSave(p) == pc[p] \in {"save_open", "save_write", "save_replace"}

\* a text json.dump can have written in full
IsCompleteText(text) ==
    LET raw == json_loads(text)
    IN  raw.ok /\ raw.is_dict /\ raw.has_tasks /\ raw.has_show_index

\* C1: while a single invocation is in save_state, every step it takes, being
\* killed included, leaves tasks.json as it was or makes it the complete new State
C1_SaveIsAtomic ==
    [][\A p \in Procs :
          InSave(p) => \/ Canonical' = Canonical
                       \/ Canonical' = Holding(mem[p])]_vars

\* C1: the invocation was killed while tasks.tmp was half-written, and tasks.json
\* still holds the complete State it held before
C1_Witness ==
    /\ pc[1] = "crashed"
    /\ Exists(TMP_FILE)
    /\ Content(TMP_FILE) # <<>>
    /\ ~IsCompleteText(Content(TMP_FILE))
    /\ Exists(DATA_FILE)
    /\ IsCompleteText(Content(DATA_FILE))

\* C2: with invocations saving at once, tasks.json is never a partial or mixed
\* file: it holds a text the script did not write, or one complete State
C2_NeverPartial ==
    Exists(DATA_FILE) =>
        \/ Content(DATA_FILE) \in InitialOddTexts
        \/ IsCompleteText(Content(DATA_FILE))

\* the default State: the two seed tasks, of priority 1 and 3 and not done, and
\* show_index 0
IsDefaultState(state) ==
    /\ state.show_index = 0
    /\ Len(state.tasks) = 2
    /\ state.tasks[1].id = SeedQuickstartId /\ state.tasks[2].id = SeedManageId
    /\ state.tasks[1].priority = 1 /\ state.tasks[2].priority = 3
    /\ ~state.tasks[1].done /\ ~state.tasks[2].done

\* C3: a load_state that finds a text that is no State never raises; when it
\* returns, tasks.json.bak exists, the State returned is the default one and
\* tasks.json holds it; also with another invocation at work on the same files
C3_LoadRecovers ==
    [][\A p \in Procs :
          /\ pc'[p] # "load_raised"
          /\ ~(pc'[p] = "raised" /\ ret'[p] = "load_recover")
          /\ (pc[p] = "save_replace" /\ ret[p] = "load_recover" /\ pc'[p] = "main") =>
                /\ Exists(BACKUP_FILE)'
                /\ IsDefaultState(loaded'[p])
                /\ Canonical' = Holding(loaded'[p])]_vars

\* the State a reader gets from tasks.json
FileState == SetDefaults(json_loads(Canonical.text))

\* C4: load_state returns to main. When it found no tasks.json, it returns the
\* default State (the two seed tasks, show_index 0) and tasks.json now holds that
\* State; when it found a valid tasks.json, it returns what the file holds, and
\* the file is still the one it found
C4_LoadDefaultOrContent ==
    \A p \in Procs :
        pc[p] = "main" =>
            /\ mem[p] = loaded[p]
            /\ ret[p] = "load_new" =>
                  /\ IsDefaultState(loaded[p])
                  /\ Exists(DATA_FILE)
                  /\ IsCompleteText(Content(DATA_FILE))
                  /\ FileState = loaded[p]
            /\ ret[p] = "none" =>
                  /\ dir[DATA_FILE] = FirstInode
                  /\ ~Exists(BACKUP_FILE)
                  /\ LET raw == json_loads(Content(DATA_FILE))
                     IN  /\ raw.ok /\ raw.is_dict
                         /\ raw.has_tasks => loaded[p].tasks = raw.tasks
                         /\ raw.has_show_index => loaded[p].show_index = raw.show_index

\* C4: load_state found no tasks.json and has returned; tasks.json is there
C4_Witness ==
    /\ pc[1] = "main"
    /\ ret[1] = "load_new"
    /\ Exists(DATA_FILE)

\* C5: an invocation has saved its State s and ended, and the next invocation's
\* load_state has returned: it returns s, by reading only, and tasks.json holds s
C5_RoundTrip ==
    (pc[1] = "done" /\ changed[1] /\ pc[2] = "main") =>
        /\ loaded[2] = mem[1]
        /\ ret[2] = "none"
        /\ Canonical = Holding(mem[1])

\* C5: the round trip of a State of three tasks, one of them done, with a cursor
\* that is not 0
C5_Witness ==
    /\ pc[1] = "done" /\ changed[1] /\ pc[2] = "main"
    /\ Len(mem[1].tasks) = MaxTasks
    /\ \E i \in 1..Len(mem[1].tasks) : mem[1].tasks[i].done
    /\ mem[1].show_index # 0

\* C6, as claimed: at the exit of an invocation whose State differs from the one
\* it loaded, tasks.json holds the final State; and main and tui_loop save only
\* a State that differs from the loaded one
C6_SavedIffMutated ==
    \A p \in Procs :
        /\ (pc[p] = "done" /\ mem[p] # loaded[p]) => Canonical = Holding(mem[p])
        /\ (InSave(p) /\ ret[p] \in {"main", "tui"}) => mem[p] # loaded[p]

\* C6, amended: at the exit of an invocation tasks.json holds the final State,
\* written in full when that differs from the loaded State; main and tui_loop
\* save a State equal to the loaded one only for cycle, reset, menu and tui
C6_SavedWhenChanged ==
    \A p \in Procs :
        /\ pc[p] = "done" =>
              /\ Exists(DATA_FILE)
              /\ json_loads(Content(DATA_FILE)).ok
              /\ FileState = mem[p]
              /\ mem[p] # loaded[p] => Canonical = Holding(mem[p])
        /\ (InSave(p) /\ ret[p] \in {"main", "tui"}) =>
              \/ mem[p] # loaded[p]
              \/ args[p].action \in {"cycle", "reset", "menu", "tui"}

\* C6: an invocation has changed its State and has exited
C6_Witness ==
    /\ pc[1] = "done"
    /\ mem[1] # loaded[1]
    /\ Canonical = Holding(mem[1])

\* C7: get_display_task picks, from the pending tasks in order or else from all
\* tasks in order, the one at index floor(t / ROTATION_INTERVAL) mod the size of
\* that pool; it is None, render_tasks_line says "No todos" and
\* toggle_current_display_task returns False only when there are no tasks at all
C7_CurrentTask ==
    \A p \in Procs, t \in Times :
        LET pool == next_display_pool(mem[p])
            task == get_display_task(mem[p], t)
        IN  /\ task = IF pool = <<>> THEN None
                      ELSE pool[((t \div ROTATION_INTERVAL) % Len(pool)) + 1]
            /\ task = None => mem[p].tasks = <<>>
            /\ render_tasks_line(mem[p], t) = NoTodos => mem[p].tasks = <<>>
            /\ ~toggle_current_display_task(mem[p], t).result => mem[p].tasks = <<>>

\* a's sort key (priority, created, title) is not above b's
KeyNotAbove(a, b) ==
    \/ a.priority < b.priority
    \/ a.priority = b.priority /\ a.created < b.created
    \/ a.priority = b.priority /\ a.created = b.created /\ ~StrLess(b.title, a.title)

\* C8: next_display_pool is empty only if there are no tasks; it holds only
\* pending tasks when a task is pending; it ascends by (priority, created,
\* title); and it is the sorted list of all tasks with the done ones left out,
\* when that is not empty
C8_DisplayPool ==
    \A p \in Procs :
        LET pool == next_display_pool(mem[p])
            filtered == SelectSeq(sorted_tasks(mem[p].tasks), NotDone)
        IN  /\ pool = <<>> => mem[p].tasks = <<>>
            /\ (\E i \in 1..Len(mem[p].tasks) : ~mem[p].tasks[i].done) =>
                  \A i \in 1..Len(pool) : ~pool[i].done
            /\ \A i, j \in 1..Len(pool) : i < j => KeyNotAbove(pool[i], pool[j])
            /\ filtered # <<>> => pool = filtered

\* C8: three tasks, one done and two pending with the same sort key
C8_Witness ==
    /\ Len(mem[1].tasks) = MaxTasks
    /\ \E i, j, k \in 1..Len(mem[1].tasks) :
          /\ i < j
          /\ mem[1].tasks[k].done
          /\ ~mem[1].tasks[i].done /\ ~mem[1].tasks[j].done
          /\ KeyNotAbove(mem[1].tasks[i], mem[1].tasks[j])
          /\ KeyNotAbove(mem[1].tasks[j], mem[1].tasks[i])

\* the tasks of a sequence, as a set
Elements(seq) == {seq[i] : i \in 1..Len(seq)}

\* C9: two invocations whose pending tasks are the same pick the same task at
\* the same time t; and the index picked at t + ROTATION_INTERVAL is the one
\* picked at t, plus one, mod the size of the pool
C9_Rotation ==
    \A p \in Procs :
        LET pool == sorted_tasks(pending_tasks(mem[p]))
            n == Len(pool)
        IN  /\ \A q \in Procs \ {p} :
                  Elements(pending_tasks(mem[p])) = Elements(pending_tasks(mem[q])) =>
                      \A t \in Times :
                          get_display_task(mem[p], t) = get_display_task(mem[q], t)
            /\ n > 0 =>
                  \A t \in Times :
                      /\ get_display_task(mem[p], t) = pool[RotationIndex(t, n) + 1]
                      /\ RotationIndex(t + ROTATION_INTERVAL, n)
                            = (RotationIndex(t, n) + 1) % n

\* C9: two invocations hold the same three pending tasks in memory
C9_Witness ==
    /\ pc[1] = "done" /\ pc[2] = "done"
    /\ Len(pending_tasks(mem[1])) = MaxTasks
    /\ Elements(pending_tasks(mem[1])) = Elements(pending_tasks(mem[2]))

\* C10: no task with an empty title is ever stored, and an add command whose
\* title is empty once trimmed changes nothing and reports no change
C10_EmptyTitleRejected ==
    \A p \in Procs :
        /\ \A i \in 1..Len(mem[p].tasks) : mem[p].tasks[i].title # <<>>
        /\ (args[p].action = "add" /\ Strip(args[p].title) = <<>> /\ pc[p] = "done") =>
              mem[p] = loaded[p] /\ ~changed[p]

\* every priority of the tasks of a State is one of 1..5
PrioritiesInRange(state) ==
    \A i \in 1..Len(state.tasks) : state.tasks[i].priority \in MinPriority..MaxPriority

\* C11: every task an invocation holds, and every task tasks.json holds, has a
\* priority in 1..5; an add command has stored 5 for a priority above 5, 1 for
\* one below 1, and the priority given otherwise
C11_PriorityInRange ==
    \A p \in Procs :
        /\ PrioritiesInRange(mem[p])
        /\ (Exists(DATA_FILE) /\ json_loads(Content(DATA_FILE)).ok) => PrioritiesInRange(FileState)
        /\ (pc[p] = "done" /\ args[p].action = "add" /\ args[p].title # <<>>) =>
              LET given == args[p].priority
                  stored == mem[p].tasks[Len(mem[p].tasks)].priority
              IN  stored = IF given > 5 THEN 5 ELSE IF given < 1 THEN 1 ELSE given

\* C11: add --priority 7 has run and the task is in tasks.json with priority 5
C11_Witness ==
    /\ pc[1] = "done" /\ args[1].action = "add" /\ args[1].priority = 7
    /\ args[1].title # <<>>
    /\ FileState = mem[1]
    /\ mem[1].tasks[Len(mem[1].tasks)].priority = 5

\* the ids a toggle or a delete is tried with: those of --id and those of the tasks
TestIds(state) == IdInputs \cup {state.tasks[i].id : i \in 1..Len(state.tasks)}
\* where the tasks with this id are
Hits(state, id) == {i \in 1..Len(state.tasks) : state.tasks[i].id = id}

\* C12: toggle_task returns True exactly when a task has the id; then that one
\* task has its done flag negated and nothing else of the State differs; with
\* no such task the State is as it was. The toggle command does just that
C12_ToggleFrame ==
    \A p \in Procs :
        /\ \A id \in TestIds(mem[p]) :
              LET r == toggle_task(mem[p], id)
                  hits == Hits(mem[p], id)
              IN  /\ r.result = (hits # {})
                  /\ hits = {} => r.state = mem[p]
                  /\ hits # {} =>
                        /\ r.state.show_index = mem[p].show_index
                        /\ Len(r.state.tasks) = Len(mem[p].tasks)
                        /\ \E k \in hits : \A i \in 1..Len(mem[p].tasks) :
                              /\ r.state.tasks[i].id = mem[p].tasks[i].id
                              /\ r.state.tasks[i].title = mem[p].tasks[i].title
                              /\ r.state.tasks[i].priority = mem[p].tasks[i].priority
                              /\ r.state.tasks[i].created = mem[p].tasks[i].created
                              /\ r.state.tasks[i].done =
                                    IF i = k THEN ~mem[p].tasks[i].done ELSE mem[p].tasks[i].done
        /\ (pc[p] = "done" /\ args[p].action = "toggle" /\ args[p].id # <<>>) =>
              /\ changed[p] = (Hits(loaded[p], args[p].id) # {})
              /\ mem[p] = toggle_task(loaded[p], args[p].id).state

\* C12: the toggle command has made a done task pending again, next to another task
C12_Witness ==
    /\ pc[1] = "done" /\ args[1].action = "toggle" /\ changed[1]
    /\ Len(mem[1].tasks) > 1
    /\ \E i \in Hits(loaded[1], args[1].id) : loaded[1].tasks[i].done /\ ~mem[1].tasks[i].done

\* C13: after clear_completed no task is done, every task that was pending is
\* still there as it was and in its order, nothing else is there, the list is
\* empty when every task was done, and a second clear_completed changes nothing
C13_ClearCompleted ==
    \A p \in Procs :
        LET before == mem[p].tasks
            after == clear_completed(mem[p])
            kept == {i \in 1..Len(before) : ~before[i].done}
        IN  /\ \A j \in 1..Len(after.tasks) : ~after.tasks[j].done
            /\ Len(after.tasks) = Cardinality(kept)
            /\ \A i \in kept :
                  after.tasks[Cardinality({h \in kept : h <= i})] = before[i]
            /\ kept = {} => after.tasks = <<>>
            /\ after.show_index = mem[p].show_index
            /\ clear_completed(after) = after

\* C13: the key c of the editor has removed a done task and left a pending one
C13_Witness ==
    /\ args[1].action = "tui" /\ keys[1] = 1 /\ pc[1] \in {"save_open", "tui_draw"}
    /\ Len(mem[1].tasks) = 1
    /\ Len(loaded[1].tasks) = 2
    /\ \E i \in 1..2 : loaded[1].tasks[i].done /\ mem[1].tasks[1] = loaded[1].tasks[3 - i]

\* C14: delete_task reports a change exactly when the list got shorter; the
\* tasks with another id stay as they were and in their order, no task with the
\* id is left, and an id no task has leaves the State as it was
C14_DeleteFrame ==
    \A p \in Procs : \A id \in TestIds(mem[p]) :
        LET before == mem[p].tasks
            r == delete_task(mem[p], id)
            kept == {i \in 1..Len(before) : before[i].id # id}
        IN  /\ r.result = (Len(r.state.tasks) < Len(before))
            /\ r.result = (Hits(mem[p], id) # {})
            /\ Len(r.state.tasks) = Cardinality(kept)
            /\ \A i \in kept :
                  r.state.tasks[Cardinality({h \in kept : h <= i})] = before[i]
            /\ r.state.show_index = mem[p].show_index
            /\ Hits(mem[p], id) = {} => r.state = mem[p]

\* C14: the key d of the editor has removed one of two pending tasks
C14_Witness ==
    /\ args[1].action = "tui" /\ keys[1] = 1 /\ pc[1] \in {"save_open", "tui_draw"}
    /\ Len(loaded[1].tasks) = 2 /\ Len(mem[1].tasks) = 1
    /\ \A i \in 1..2 : ~loaded[1].tasks[i].done
    /\ changed[1]

\* show_index is a cursor into the display pool of the State
ValidCursor(state) ==
    LET n == Len(next_display_pool(state))
    IN  IF n = 0 THEN state.show_index = 0
        ELSE 0 <= state.show_index /\ state.show_index < n

\* C15: from the default State on, whatever commands have run, the show_index
\* an invocation holds and the one tasks.json holds are cursors into the
\* display pool: 0 for an empty pool, else at least 0 and below its size
C15_CursorValid ==
    /\ \A p \in Procs : ValidCursor(mem[p])
    /\ (Exists(DATA_FILE) /\ json_loads(Content(DATA_FILE)).ok) => ValidCursor(FileState)

\* C15: an earlier command has left one pending task of two, and a cycle
\* command has run on that State
C15_Witness ==
    /\ pc[1] = "done" /\ args[1].action = "cycle"
    /\ Len(loaded[1].tasks) = 2
    /\ Len(next_display_pool(loaded[1])) = 1
    /\ FileState = mem[1]

\* C16: when two invocations have both saved and both ended without an error,
\* tasks.json holds the complete State of one of them and nothing of the
\* other's change: the last rename wins
C16_LastWriterWins ==
    (pc[1] = "done" /\ pc[2] = "done" /\ changed[1] /\ changed[2]) =>
        \E p \in Procs :
            /\ Canonical = Holding(mem[p])
            /\ FileState = mem[p]

\* C16: a lost update. Two add commands loaded the same State, both ended
\* without an error, and tasks.json holds the task of the second only
C16_Witness ==
    /\ pc[1] = "done" /\ pc[2] = "done"
    /\ args[1].action = "add" /\ args[2].action = "add"
    /\ changed[1] /\ changed[2]
    /\ loaded[1] = loaded[2]
    /\ Len(mem[1].tasks) = Len(loaded[1].tasks) + 1
    /\ Len(mem[2].tasks) = Len(loaded[2].tasks) + 1
    /\ Canonical = Holding(mem[2])
    /\ \A i \in 1..Len(FileState.tasks) :
          FileState.tasks[i].id # mem[1].tasks[Len(mem[1].tasks)].id

\* the cursor after one step of manual cycling from show_index i
Advanced(state, i) ==
    LET n == Len(next_display_pool(state))
    IN  IF n = 0 THEN 0 ELSE (i + 1) % n

\* the task shown is the same in both States at every clock reading
SameCurrentTask(a, b) ==
    \A t \in Times : get_display_task(a, t) = get_display_task(b, t)

\* C17, as claimed: after the cycle command show_index is the loaded one plus
\* one, mod the size of the pool (0 for an empty pool); after reset it is 0;
\* both leave the tasks and the task shown as they were
C17_CycleAdvances ==
    \A p \in Procs :
        /\ (pc[p] = "done" /\ args[p].action = "cycle") =>
              /\ mem[p].show_index = Advanced(loaded[p], loaded[p].show_index)
              /\ mem[p].tasks = loaded[p].tasks
              /\ SameCurrentTask(mem[p], loaded[p])
        /\ (pc[p] = "done" /\ args[p].action = "reset") =>
              /\ mem[p].show_index = 0
              /\ mem[p].tasks = loaded[p].tasks
              /\ SameCurrentTask(mem[p], loaded[p])

\* C17, amended: the cycle command leaves the whole State as loaded and writes
\* it back; cycle_task, which no command calls, gives show_index plus one mod
\* the size of the pool (0 for an empty pool); reset gives show_index 0; all
\* three leave the tasks and the task shown as they were
C17_CycleKeepsCursor ==
    \A p \in Procs :
        /\ (pc[p] = "done" /\ args[p].action = "cycle") =>
              /\ mem[p] = loaded[p]
              /\ changed[p]
              /\ Canonical = Holding(mem[p])
        /\ (pc[p] = "done" /\ args[p].action = "reset") =>
              /\ mem[p].show_index = 0
              /\ mem[p].tasks = loaded[p].tasks
              /\ SameCurrentTask(mem[p], loaded[p])
              /\ Canonical = Holding(mem[p])
        /\ LET c == cycle_task(mem[p])
           IN  /\ c.show_index = Advanced(mem[p], mem[p].show_index)
               /\ c.tasks = mem[p].tasks
               /\ SameCurrentTask(c, mem[p])

\* C17: the cycle command has run on a State with two pending tasks and the
\* cursor 0, and has written it back as it was
C17_Witness ==
    /\ pc[1] = "done" /\ args[1].action = "cycle"
    /\ Len(pending_tasks(loaded[1])) = 2
    /\ loaded[1].show_index = 0
    /\ mem[1].show_index = 0
    /\ Canonical = Holding(mem[1])

\* the launcher prints this line of the menu
Chosen(option) == [returncode |-> 0, stdout |-> option]
\* the launcher is closed without an answer
Cancelled == [returncode |-> 1, stdout |-> <<>>]

\* C18: in the menu, the line of a task toggles that very task, sets
\* show_index to 0 and reports a change; "Clear completed" removes the done
\* tasks and sets show_index to 0
C18_MenuToggle ==
    \A p \in Procs : (pc[p] = "main" /\ args[p].action = "menu") =>
        /\ \A i \in 1..Len(mem[p].tasks) :
              LET task == mem[p].tasks[i]
                  r == manage_menu(mem[p], TRUE, Chosen(TaskOption(task)), Cancelled,
                                   Cancelled, NewId(1), 0)
              IN  /\ r.result
                  /\ r.state = reset_cycle(toggle_task(mem[p], task.id).state)
        /\ LET r == manage_menu(mem[p], TRUE, Chosen(ClearOption), Cancelled, Cancelled,
                                NewId(1), 0)
           IN  /\ r.result
               /\ r.state.tasks = SelectSeq(mem[p].tasks, NotDone)
               /\ r.state.show_index = 0

\* manage_menu has left the State as it was and has reported no change
Aborted(r, state) == r.state = state /\ ~r.result

\* C19: in the menu, when there is no launcher, or the launcher exits with a
\* status that is not 0 at the menu, at the prompt for the title or at the
\* prompt for the priority, the State is as it was and no change is reported
C19_LauncherAbort ==
    \A p \in Procs : (pc[p] = "main" /\ args[p].action = "menu") =>
        \A menu_answer \in MenuAnswers(mem[p]),
           title_answer \in PromptAnswers(TitleInputs),
           priority_answer \in PromptAnswers(PriorityTexts) :
            /\ Aborted(manage_menu(mem[p], FALSE, menu_answer, title_answer,
                                    priority_answer, NewId(1), 0), mem[p])
            /\ menu_answer.returncode # 0 =>
                  Aborted(manage_menu(mem[p], TRUE, menu_answer, title_answer,
                                      priority_answer, NewId(1), 0), mem[p])
            /\ (title_answer.returncode # 0 \/ priority_answer.returncode # 0) =>
                  Aborted(manage_menu(mem[p], TRUE, Chosen(AddOption), title_answer,
                                      priority_answer, NewId(1), 0), mem[p])

\* idx is an index of the sorted list of the tasks of the State
CursorInRange(idx, state) == 0 <= idx /\ idx < Len(sorted_tasks(state.tasks))

\* C20: whenever the editor is about to handle a key on a list that is not
\* empty, current_idx is at least 0 and below the number of tasks, so toggle,
\* delete and edit act on a task of the list; and every key handler leaves the
\* cursor in the range of the list it leaves, when that is not empty
C20_CursorInRange ==
    [][\A p \in Procs :
          /\ (pc'[p] = "tui_key" /\ mem'[p].tasks # <<>>) =>
                CursorInRange(current_idx'[p], mem'[p])
          /\ (pc[p] = "tui_key" /\ pc'[p] \in {"tui_draw", "save_open"}
                /\ mem'[p].tasks # <<>>) =>
                CursorInRange(current_idx'[p], mem'[p])]_vars

\* C20: the cursor went down to the second of two pending tasks, that task
\* was deleted, and the editor is about to handle the next key on the task left
C20_Witness ==
    /\ pc[1] = "tui_key" /\ keys[1] = 2
    /\ Len(loaded[1].tasks) = 2 /\ Len(mem[1].tasks) = 1
    /\ \A i \in 1..2 : ~loaded[1].tasks[i].done
    /\ mem[1].tasks[1] = sorted_tasks(loaded[1].tasks)[1]
    /\ current_idx[1] = 0

====
